---- MODULE Spec2Model ----
(***************************************************************************)
(* Model of the internal endpoints of sources/internal/endpoint/routers.py *)
(* (internal_router_builder_main): fee_returns and weekly_chain_usd_fees,  *)
(* with the asyncio.gather fan-out both of them await.                     *)
(*                                                                         *)
(* One request is handled at a time.  Strings are sequences of one-letter  *)
(* strings, so that startswith, split and int work on them as in Python.   *)
(***************************************************************************)
EXTENDS Integers, Sequences, FiniteSets, TLC

\* ------------------------------------------------------------------ bounds

\* first UTC day (days since the epoch) at which a request may arrive
BaseDay == 20000
\* requests arrive on the days BaseDay .. BaseDay + MaxDay
MaxDay == 1
\* seconds the wall clock may advance while one request is handled
MaxTicks == 1
\* explicit integer starts lie up to MaxWeeksBack weeks before the arrival
MaxWeeksBack == 2
\* hypervisors known to fee_returns_all
NumHypes == 2
\* addresses a correlation request may list in one parameter
MaxAddresses == 2

\* ------------------------------------------------------- program constants

week_in_seconds == 604800
\* datetime(year, month, day, tzinfo=utc) is a whole number of days
seconds_in_day == 86400

\* ----------------------------------------------------------------- strings

Str_last == <<"l", "a", "s", "t">>
Str_dash == "-"
Digits == <<"0", "1", "2", "3", "4", "5", "6", "7", "8", "9">>

IsDigit(c) == \E i \in 1..Len(Digits) : Digits[i] = c
DigitValue(c) == (CHOOSE i \in 1..Len(Digits) : Digits[i] = c) - 1

\* str.startswith
StartsWith(s, p) == Len(s) >= Len(p) /\ SubSeq(s, 1, Len(p)) = p

\* str.split(sep) for a one-letter separator: the parts between separators,
\* empty parts kept
RECURSIVE Split(_, _)
Split(s, sep) ==
    IF \A i \in 1..Len(s) : s[i] # sep
    THEN <<s>>
    ELSE LET k == CHOOSE i \in 1..Len(s) :
                      s[i] = sep /\ \A j \in 1..(i - 1) : s[j] # sep
         IN  <<SubSeq(s, 1, k - 1)>> \o Split(SubSeq(s, k + 1, Len(s)), sep)

RECURSIVE DecimalValue(_)
DecimalValue(s) ==
    IF Len(s) = 0 THEN 0
    ELSE 10 * DecimalValue(SubSeq(s, 1, Len(s) - 1)) + DigitValue(s[Len(s)])

\* int(str) on the letters used here: an optional sign and at least one
\* digit; anything else raises ValueError
PyInt(s) ==
    LET signed == Len(s) > 0 /\ s[1] \in {"+", "-"}
        body   == IF signed THEN SubSeq(s, 2, Len(s)) ELSE s
    IN  IF Len(body) > 0 /\ \A i \in 1..Len(body) : IsDigit(body[i])
        THEN [ok |-> TRUE,
              val |-> IF signed /\ s[1] = "-" THEN 0 - DecimalValue(body)
                      ELSE DecimalValue(body)]
        ELSE [ok |-> FALSE, val |-> 0]

\* ------------------------------------------------------------------- values

NoValue == [kind |-> "None"]
IntParam(n) == [kind |-> "int", n |-> n]
StrParam(s) == [kind |-> "str", s |-> s]
\* an exception object: its type, and the branch that raised it (0: the handler)
Exception(type, branch) == [type |-> type, branch |-> branch]
Raised(exc) == [kind |-> "raise", exc |-> exc]
\* isinstance(r, Exception)
IsException(r) == r.kind = "raise"
HTTPException(code, detail) == [kind |-> "http", status |-> code, detail |-> detail]
Returned(body) == [kind |-> "return", body |-> body]
Pending == [kind |-> "pending"]

\* ------------------------------------------------------------ window start

\* the bug of taking _now.timestamp() instead of the day's midnight
MidnightIsNow(now) == now

\* datetime(year=_now.year, month=_now.month, day=_now.day, tzinfo=utc).timestamp()
Midnight(now) == now - (now % seconds_in_day)

\* the bug of going back N weeks, not N + 1, for "last-N"
ResolveWeekStartOffByOne(p, now) ==
    IF p.kind # "str" THEN p
    ELSE IF p.s = Str_last
         THEN IntParam(Midnight(now) - week_in_seconds)
    ELSE IF StartsWith(p.s, Str_last) /\ Len(Split(p.s, Str_dash)) = 2
         THEN LET n == PyInt(Split(p.s, Str_dash)[2])
              IN  IF n.ok
                  THEN IntParam(Midnight(now) - week_in_seconds * n.val)
                  ELSE Raised(Exception("ValueError", 0))
    ELSE HTTPException(400, "Invalid week start timestamp.")

\* lines 285-314: week_start_timestamp after the string branch, or the
\* exception the branch raises
ResolveWeekStart(p, now) ==
    IF p.kind # "str" THEN p
    ELSE IF p.s = Str_last
         THEN IntParam(Midnight(now) - week_in_seconds)
    ELSE IF StartsWith(p.s, Str_last) /\ Len(Split(p.s, Str_dash)) = 2
         THEN LET n == PyInt(Split(p.s, Str_dash)[2])
              IN  IF n.ok
                  THEN IntParam(Midnight(now) - week_in_seconds * (n.val + 1))
                  ELSE Raised(Exception("ValueError", 0))
    ELSE HTTPException(400, "Invalid week start timestamp.")

\* line 317: week_start_timestamp or int(now)
StartTimestamp(week_start, now) == IF week_start # 0 THEN week_start ELSE now

\* the bug of counting a started week as a whole one
WeeksRoundedUp(start, end) ==
    (end - start + week_in_seconds - 1) \div week_in_seconds

\* line 323: int(end - start) // week_in_seconds  (\div floors, as // does)
Weeks(start, end) == (end - start) \div week_in_seconds

\* lines 326-333: range(weeks) is empty when weeks <= 0
WeekTimestamps(start, end) ==
    [i \in 1..Weeks(start, end) |->
        [week |-> i - 1,
         st   |-> start + week_in_seconds * (i - 1),
         et   |-> start + week_in_seconds * i - 1]]

\* lines 336-345: one get_chain_usd_fees call per week, weeknum = week + 1
WeeklyRequests(week_timestamps) ==
    [i \in 1..Len(week_timestamps) |->
        [fn      |-> "get_chain_usd_fees",
         st      |-> week_timestamps[i].st,
         et      |-> week_timestamps[i].et,
         weeknum |-> week_timestamps[i].week + 1]]

\* --------------------------------------------------------- fee_returns data

Hypes == 1..NumHypes

\* the days argument of the three fee_returns_all calls, in call order
PeriodDays == <<1, 7, 30>>
\* the keys result_map binds results[0], results[1], results[2] to
PeriodNames == <<"daily", "weekly", "monthly">>

\* fee_returns_all(protocol, chain, days)[part][hype][field], an upstream value
FeeField(days, part, hype, field) ==
    [days |-> days, part |-> part, hype |-> hype, field |-> field]

\* what one fee_returns_all call may return: the hypervisors keyed under "lp"
\* and under "total" (their values are the FeeField values above)
FeeReturnsAllValues(days) ==
    {[days |-> days, lp |-> l, total |-> t] : l \in SUBSET Hypes, t \in SUBSET Hypes}

\* lines 125-131
InternalFeeYield(period_result, hype) ==
    [totalApr |-> FeeField(period_result.days, "total", hype, "feeApr"),
     totalApy |-> FeeField(period_result.days, "total", hype, "feeApy"),
     lpApr    |-> FeeField(period_result.days, "lp", hype, "feeApr"),
     lpApy    |-> FeeField(period_result.days, "lp", hype, "feeApy"),
     status   |-> <<FeeField(period_result.days, "total", hype, "status"),
                    FeeField(period_result.days, "lp", hype, "status")>>]

\* line 98
ResultMap(results) ==
    [daily |-> results[1], weekly |-> results[2], monthly |-> results[3]]

\* the bug of preferring the coarsest period that succeeded
ValidResultsCoarsestFirst(result_map) ==
    IF IsException(result_map.monthly)
    THEN IF IsException(result_map.weekly)
         THEN IF IsException(result_map.daily)
              THEN Raised(Exception("TypeError", 0))
              ELSE result_map.daily
         ELSE result_map.weekly
    ELSE result_map.monthly

\* lines 102-110: the period whose "lp" dict is valid_results; subscripting
\* an exception object raises TypeError
ValidResults(result_map) ==
    IF IsException(result_map.daily)
    THEN IF IsException(result_map.weekly)
         THEN IF IsException(result_map.monthly)
              THEN Raised(Exception("TypeError", 0))
              ELSE result_map.monthly
         ELSE result_map.weekly
    ELSE result_map.daily

\* lines 120-121: a period that succeeded is subscripted with hype_address
\* under "total" and under "lp"; a missing key raises KeyError
HasKeyError(result_map, hype) ==
    \E i \in 1..3 :
        LET period_result == result_map[PeriodNames[i]]
        IN  /\ ~IsException(period_result)
            /\ \/ hype \notin period_result.body.total
               \/ hype \notin period_result.body.lp

\* the bug of filling a period's field from the daily result alone
PeriodFieldDailyOnly(period_result, hype) ==
    IF IsException(period_result) \/ period_result.body.days # PeriodDays[1]
    THEN NoValue
    ELSE InternalFeeYield(period_result.body, hype)

\* lines 117-132: the field setattr gives output[hype_address] for a period
PeriodField(period_result, hype) ==
    IF IsException(period_result) THEN NoValue
    ELSE InternalFeeYield(period_result.body, hype)

\* lines 113-132
OutputEntry(result_map, valid, hype) ==
    [symbol  |-> FeeField(valid.days, "lp", hype, "symbol"),
     daily   |-> PeriodField(result_map.daily, hype),
     weekly  |-> PeriodField(result_map.weekly, hype),
     monthly |-> PeriodField(result_map.monthly, hype)]

\* lines 98-134: what the handler does with the gathered results
FeeReturnsMerge(results) ==
    LET result_map == ResultMap(results)
        valid      == ValidResults(result_map)
    IN  IF IsException(valid) THEN valid
        ELSE IF \E h \in valid.body.lp : HasKeyError(result_map, h)
             THEN Raised(Exception("KeyError", 0))
        ELSE Returned([h \in valid.body.lp |->
                          OutputEntry(result_map, valid.body, h)])

\* ------------------------------------------------------------ asyncio.gather

\* the exception a failing aggregation call raises in branch i
UpstreamError(i) == Raised(Exception("UpstreamError", i))

AllDone(children) == \A j \in 1..Len(children) : children[j].kind # "pending"

\* gather(*coros) with no coroutine: a future that already holds []
GatherStart(n) == IF n = 0 THEN Returned(<<>>) ELSE Pending

\* gather's _done_callback for child i: the outer future afterwards.  Without
\* return_exceptions the first exception is set on the outer future at once;
\* otherwise the outer future gets the children's results, in the children's
\* order, when the last child is done
GatherDoneCallback(outer_fut, children, i, return_exceptions) ==
    IF outer_fut.kind # "pending" THEN outer_fut
    ELSE IF ~return_exceptions /\ IsException(children[i])
         THEN children[i]
    ELSE IF AllDone(children)
         THEN Returned([j \in 1..Len(children) |-> children[j]])
    ELSE Pending

\* the bug of leaving gather at its default in fee_returns
fee_returns_gather_default == FALSE

\* line 95
fee_returns_return_exceptions == TRUE
\* line 347: gather's default
weekly_return_exceptions == FALSE

\* --------------------------------------------------------------------- state

VARIABLES
    endpoint,               \* the route function handling the request, or "none"
    pc,                     \* where its handler stands
    query,                  \* week_start_timestamp as the request carries it
    week_start_timestamp,   \* the parameter, which lines 289 and 303 rebind
    clock,                  \* datetime.now(timezone.utc).timestamp(), in seconds
    ticks,                  \* seconds the clock advanced during the request
    now_read,               \* _now of line 286
    start_timestamp,        \* line 317
    end_timestamp,          \* line 320
    requests,               \* the coroutines handed to gather, in order
    tasks,                  \* each child's outcome, Pending while it runs
    outer,                  \* gather's outer future
    response,               \* what the client gets, Pending until then
    protocol,               \* the protocol parameter, NoProtocol when not given
    chain,                  \* the chain path parameter
    token_addresses,        \* correlation: after filter_addresses, line 223
    hypervisor_addresses    \* correlation: after filter_addresses, line 224

vars == <<endpoint, pc, query, week_start_timestamp, clock, ticks, now_read,
          start_timestamp, end_timestamp, requests, tasks, outer, response,
          protocol, chain, token_addresses, hypervisor_addresses>>

\* the parameters of the fee endpoints
fee_params == <<protocol, chain>>
\* the parameters of the correlation endpoint
address_params == <<token_addresses, hypervisor_addresses>>
\* what only weekly_chain_usd_fees reads and binds
weekly_locals == <<query, week_start_timestamp, clock, ticks, now_read,
                   start_timestamp, end_timestamp>>

\* --------------------------------------------------------------------- inputs

TimesOfDay == {0, 1, 43200, 86399}
ArrivalTimes ==
    {(BaseDay + d) * seconds_in_day + t : d \in 0..MaxDay, t \in TimesOfDay}

Str_lastfoo == <<"l", "a", "s", "t", "f", "o", "o">>
Str_bogus == <<"b", "o", "g", "u", "s">>
TokenHeads == {Str_last, Str_lastfoo, Str_bogus, <<>>}
TokenTails ==
    {<<>>, <<"-">>, <<"-", "0">>, <<"-", "2">>, <<"-", "a", "b", "c">>,
     <<"-", "1", "-", "2">>, <<"-", "+", "1">>}
Tokens == {h \o t : h \in TokenHeads, t \in TokenTails}

\* explicit integer starts, relative to the arrival time, and 0
IntStarts(now) ==
    {0, now + 1} \cup
    {now - k * week_in_seconds - r :
        k \in 0..MaxWeeksBack, r \in {0, 1, week_in_seconds - 1}}

WeekStartParams(now) ==
    {StrParam(s) : s \in Tokens} \cup {IntParam(n) : n \in IntStarts(now)}

Protocols == {"uniswapv3", "quickswap"}
Chains == {"ethereum", "polygon"}
\* sources.subgraph.bins.config.DEPLOYMENTS: the (protocol, chain) pairs served
DEPLOYMENTS == {<<"uniswapv3", "ethereum">>}
\* protocol: Protocol | None = None, left out of the request
NoProtocol == "None"
\* if protocol: a Protocol member is truthy, None is not
ProtocolGiven(p) == p # NoProtocol
\* f"{protocol} on {chain} not available."
NotAvailable(p, c) == <<p, c, "not available">>

\* addresses a correlation request may carry
AddressPool == {"0xa", "0xb"}

RECURSIVE SeqsUpTo(_)
SeqsUpTo(n) ==
    IF n = 0 THEN {<<>>}
    ELSE SeqsUpTo(n - 1) \cup
         {Append(q, a) : q \in {x \in SeqsUpTo(n - 1) : Len(x) = n - 1},
                         a \in AddressPool}

\* list[str] = Query(None): the parameter left out, or a list of addresses
AddressParams ==
    {NoValue} \cup {[kind |-> "list", items |-> q] : q \in SeqsUpTo(MaxAddresses)}

\* the items of a list at the positions in keep, in order
RECURSIVE Kept(_, _)
Kept(items, keep) ==
    IF items = <<>> THEN <<>>
    ELSE LET rest == Kept(SubSeq(items, 1, Len(items) - 1), keep)
         IN  IF Len(items) \in keep THEN Append(rest, items[Len(items)]) ELSE rest

\* filter_addresses(addresses): the lists it may give back, the addresses it
\* keeps out of those given; nothing for a parameter left out
FilterAddresses(param) ==
    IF param.kind = "None" THEN {<<>>}
    ELSE {Kept(param.items, keep) : keep \in SUBSET (1..Len(param.items))}

\* the bug of testing hypervisor_addresses first
CorrelationCallHypervisorsFirst(tokens, hypervisors, c) ==
    IF hypervisors # <<>>
    THEN <<[fn |-> "get_correlation_from_hypervisors", chain |-> c,
            addresses |-> hypervisors]>>
    ELSE IF tokens # <<>>
    THEN <<[fn |-> "get_correlation", chain |-> c, addresses |-> tokens]>>
    ELSE <<>>

\* lines 226-234 of the frontend router: the correlation function the handler
\* awaits, none when both lists are empty
CorrelationCall(tokens, hypervisors, c) ==
    IF tokens # <<>>
    THEN <<[fn |-> "get_correlation", chain |-> c, addresses |-> tokens]>>
    ELSE IF hypervisors # <<>>
    THEN <<[fn |-> "get_correlation_from_hypervisors", chain |-> c,
            addresses |-> hypervisors]>>
    ELSE <<>>

\* lines 236-238 of the frontend router
NoAddressesDetail == "You must provide either token_addresses or hypervisor_address"

\* ------------------------------------------------------------------- actions

Init ==
    /\ endpoint = "none"
    /\ pc = "idle"
    /\ query = NoValue
    /\ week_start_timestamp = NoValue
    /\ clock = BaseDay * seconds_in_day
    /\ ticks = 0
    /\ now_read = 0
    /\ start_timestamp = 0
    /\ end_timestamp = 0
    /\ requests = <<>>
    /\ tasks = <<>>
    /\ outer = Pending
    /\ response = Pending
    /\ protocol = NoProtocol
    /\ chain = "None"
    /\ token_addresses = <<>>
    /\ hypervisor_addresses = <<>>

\* lines 82-96: GET /{protocol}/{chain}/returns, up to the await of gather
fee_returns ==
    /\ pc = "idle"
    /\ endpoint' = "fee_returns"
    /\ protocol' \in Protocols
    /\ chain' \in Chains
    /\  IF <<protocol', chain'>> \notin DEPLOYMENTS
        THEN /\ response' = HTTPException(400, NotAvailable(protocol', chain'))
             /\ pc' = "done"
             /\ UNCHANGED <<requests, tasks, outer>>
        ELSE /\ requests' = [i \in 1..3 |->
                                [fn |-> "fee_returns_all", protocol |-> protocol',
                                 chain |-> chain', days |-> PeriodDays[i]]]
             /\ tasks' = [i \in 1..3 |-> Pending]
             /\ outer' = GatherStart(3)
             /\ pc' = "gather"
             /\ UNCHANGED response
    /\ UNCHANGED <<weekly_locals, address_params>>

\* one fee_returns_all call returns or raises
fee_returns_all ==
    /\ endpoint = "fee_returns"
    /\ \E i \in 1..Len(tasks) :
        /\ tasks[i] = Pending
        /\ \E r \in {UpstreamError(i)} \cup
                    {Returned(v) : v \in FeeReturnsAllValues(requests[i].days)} :
            /\ tasks' = [tasks EXCEPT ![i] = r]
            /\ outer' = GatherDoneCallback(outer, tasks', i,
                                           fee_returns_return_exceptions)
    /\ UNCHANGED <<endpoint, pc, query, week_start_timestamp, clock, ticks, now_read,
                   start_timestamp, end_timestamp, requests, response>>
    /\ UNCHANGED <<fee_params, address_params>>

\* lines 91-134: the await of gather ends, the handler merges and returns
fee_returns_merge ==
    /\ endpoint = "fee_returns"
    /\ pc = "gather"
    /\ outer # Pending
    /\ response' = IF IsException(outer) THEN outer
                   ELSE FeeReturnsMerge(outer.body)
    /\ pc' = "done"
    /\ UNCHANGED <<endpoint, query, week_start_timestamp, clock, ticks, now_read,
                   start_timestamp, end_timestamp, requests, tasks, outer>>
    /\ UNCHANGED <<fee_params, address_params>>

\* line 266: GET /{chain}/weekly_fees arrives
weekly_chain_usd_fees ==
    /\ pc = "idle"
    /\ endpoint' = "weekly_chain_usd_fees"
    /\ \E now \in ArrivalTimes :
        /\ clock' = now
        /\ query' \in WeekStartParams(now)
    /\ week_start_timestamp' = query'
    /\ protocol' \in Protocols \cup {NoProtocol}
    /\ chain' \in Chains
    /\ pc' = "resolve"
    /\ UNCHANGED <<ticks, now_read, start_timestamp, end_timestamp, requests,
                   tasks, outer, response, address_params>>

\* lines 283-314
weekly_resolve ==
    /\ endpoint = "weekly_chain_usd_fees"
    /\ pc = "resolve"
    /\ now_read' = IF week_start_timestamp.kind = "str" THEN clock ELSE now_read
    /\ LET r == ResolveWeekStart(week_start_timestamp, clock)
       IN  IF r.kind = "int"
           THEN /\ week_start_timestamp' = r
                /\ pc' = "start"
                /\ UNCHANGED response
           ELSE /\ response' = r
                /\ pc' = "done"
                /\ UNCHANGED week_start_timestamp
    /\ UNCHANGED <<endpoint, query, clock, ticks, start_timestamp, end_timestamp,
                   requests, tasks, outer>>
    /\ UNCHANGED <<fee_params, address_params>>

\* lines 317-319
weekly_start ==
    /\ endpoint = "weekly_chain_usd_fees"
    /\ pc = "start"
    /\ start_timestamp' = StartTimestamp(week_start_timestamp.n, clock)
    /\ pc' = "end"
    /\ UNCHANGED <<endpoint, query, week_start_timestamp, clock, ticks, now_read,
                   end_timestamp, requests, tasks, outer, response>>
    /\ UNCHANGED <<fee_params, address_params>>

\* lines 320-347: the partition, the calls and gather, up to its await
weekly_dispatch ==
    /\ endpoint = "weekly_chain_usd_fees"
    /\ pc = "end"
    /\ end_timestamp' = clock
    /\ requests' = WeeklyRequests(WeekTimestamps(start_timestamp, clock))
    /\ tasks' = [i \in 1..Len(requests') |-> Pending]
    /\ outer' = GatherStart(Len(requests'))
    /\ pc' = "gather"
    /\ UNCHANGED <<endpoint, query, week_start_timestamp, clock, ticks, now_read,
                   start_timestamp, response>>
    /\ UNCHANGED <<fee_params, address_params>>

\* one get_chain_usd_fees call returns or raises
get_chain_usd_fees ==
    /\ endpoint = "weekly_chain_usd_fees"
    /\ \E i \in 1..Len(tasks) :
        /\ tasks[i] = Pending
        /\ \E r \in {UpstreamError(i), Returned(requests[i])} :
            /\ tasks' = [tasks EXCEPT ![i] = r]
            /\ outer' = GatherDoneCallback(outer, tasks', i,
                                           weekly_return_exceptions)
    /\ UNCHANGED <<endpoint, pc, query, week_start_timestamp, clock, ticks, now_read,
                   start_timestamp, end_timestamp, requests, response>>
    /\ UNCHANGED <<fee_params, address_params>>

\* line 347: the await of gather ends; its list is returned, its exception
\* leaves the handler
weekly_return ==
    /\ endpoint = "weekly_chain_usd_fees"
    /\ pc = "gather"
    /\ outer # Pending
    /\ response' = outer
    /\ pc' = "done"
    /\ UNCHANGED <<endpoint, query, week_start_timestamp, clock, ticks, now_read,
                   start_timestamp, end_timestamp, requests, tasks, outer>>
    /\ UNCHANGED <<fee_params, address_params>>

\* the wall clock advances between two of the handler's reads of it
Tick ==
    /\ endpoint = "weekly_chain_usd_fees"
    /\ pc \in {"start", "end"}
    /\ ticks < MaxTicks
    /\ clock' = clock + 1
    /\ ticks' = ticks + 1
    /\ UNCHANGED <<endpoint, pc, query, week_start_timestamp, now_read, start_timestamp,
                   end_timestamp, requests, tasks, outer, response>>
    /\ UNCHANGED <<fee_params, address_params>>

\* lines 155-188: GET /{chain}/gross_fees
gross_fees ==
    /\ pc = "idle"
    /\ endpoint' = "gross_fees"
    /\ protocol' \in Protocols \cup {NoProtocol}
    /\ chain' \in Chains
    /\ IF ProtocolGiven(protocol') /\ <<protocol', chain'>> \notin DEPLOYMENTS
       THEN /\ response' = HTTPException(400, NotAvailable(protocol', chain'))
            /\ UNCHANGED requests
       ELSE /\ requests' = <<[fn |-> "get_gross_fees", protocol |-> protocol',
                              chain |-> chain']>>
            /\ response' = Returned(requests'[1])
    /\ pc' = "done"
    /\ UNCHANGED <<weekly_locals, tasks, outer, address_params>>

\* lines 190-222: GET /{chain}/all_fees
all_chain_usd_fees ==
    /\ pc = "idle"
    /\ endpoint' = "all_chain_usd_fees"
    /\ protocol' \in Protocols \cup {NoProtocol}
    /\ chain' \in Chains
    /\ IF ProtocolGiven(protocol') /\ <<protocol', chain'>> \notin DEPLOYMENTS
       THEN /\ response' = HTTPException(400, NotAvailable(protocol', chain'))
            /\ UNCHANGED requests
       ELSE /\ requests' = <<[fn |-> "get_chain_usd_fees", protocol |-> protocol',
                              chain |-> chain']>>
            /\ response' = Returned(requests'[1])
    /\ pc' = "done"
    /\ UNCHANGED <<weekly_locals, tasks, outer, address_params>>

\* lines 199-238 of the frontend router: GET /{chain}/analytics/correlation;
\* the awaited correlation function returns or raises
correlation ==
    /\ pc = "idle"
    /\ endpoint' = "correlation"
    /\ chain' \in Chains
    /\ \E given_tokens \in AddressParams, given_hypervisors \in AddressParams :
        /\ token_addresses' \in FilterAddresses(given_tokens)
        /\ hypervisor_addresses' \in FilterAddresses(given_hypervisors)
    /\ requests' = CorrelationCall(token_addresses', hypervisor_addresses', chain')
    /\ IF requests' = <<>>
       THEN response' = HTTPException(400, NoAddressesDetail)
       ELSE response' \in {Returned(requests'[1]), UpstreamError(1)}
    /\ pc' = "done"
    /\ UNCHANGED <<weekly_locals, tasks, outer, protocol>>

Next ==
    \/ correlation
    \/ fee_returns
    \/ gross_fees
    \/ all_chain_usd_fees
    \/ fee_returns_all
    \/ fee_returns_merge
    \/ weekly_chain_usd_fees
    \/ weekly_resolve
    \/ weekly_start
    \/ weekly_dispatch
    \/ get_chain_usd_fees
    \/ weekly_return
    \/ Tick

Spec == Init /\ [][Next]_vars

\* ----------------------------------------------------------------- claims

IsWeekly == endpoint = "weekly_chain_usd_fees"
IsReturns == endpoint = "fee_returns"
\* the handler has handed its coroutines to gather
Dispatched == pc = "gather" \/ (pc = "done" /\ outer # Pending)
\* the handler is past gather
Gathered == pc = "done" /\ outer # Pending

Failed(i) == IsException(tasks[i])
Succeeded(i) == tasks[i].kind = "return"

\* C1 (as claimed): the response of weekly_chain_usd_fees is a list with one
\* entry per dispatched week, each week's outcome at its own index, a failed
\* week as a failure marker; a failed week never fails the whole call.
C1_FailedWeekKeptInPlace ==
    (IsWeekly /\ Gathered) =>
        /\ response.kind = "return"
        /\ Len(response.body) = Len(requests)
        /\ \A i \in 1..Len(requests) :
              /\ tasks[i] # Pending
              /\ response.body[i] = tasks[i]

\* C2: in fee_returns, once gather is done it holds exactly three outcomes,
\* outcome i that of call i (1, 7, 30 days), which result_map binds to daily,
\* weekly, monthly; a branch that raised is the failure in its own slot, and
\* gather is done as soon as the three branches are.
C2_OutcomesBoundInOrder ==
    (IsReturns /\ Len(tasks) = 3) =>
        /\ (AllDone(tasks) => outer # Pending)
        /\ (outer # Pending) =>
              /\ outer.kind = "return"
              /\ Len(outer.body) = 3
              /\ \A i \in 1..3 :
                    /\ ResultMap(outer.body)[PeriodNames[i]] = tasks[i]
                    /\ Failed(i) => tasks[i].exc.branch = i
                    /\ Succeeded(i) => tasks[i].body.days = PeriodDays[i]

\* C2 witness: the weekly branch raised, the other two returned, and gather
\* delivered the three outcomes.
C2_Witness ==
    /\ IsReturns /\ Len(tasks) = 3 /\ outer # Pending
    /\ Succeeded(1) /\ Failed(2) /\ Succeeded(3)
    /\ tasks[1].body.lp # tasks[3].body.lp

\* C3 (as claimed): no endpoint responds, with a result or an error, while a
\* branch it dispatched is still running.
C3_RespondsAfterAllBranches ==
    (response # Pending) => AllDone(tasks)

\* C4: when fee_returns returns an output, its entities are those of the "lp"
\* result of the finest period that succeeded: daily if daily succeeded, weekly
\* if daily failed and weekly succeeded, monthly if daily and weekly failed.
C4_EntitiesFromFinestSucceeded ==
    (IsReturns /\ Gathered /\ response.kind = "return") =>
        /\ Succeeded(1) => DOMAIN response.body = tasks[1].body.lp
        /\ (Failed(1) /\ Succeeded(2)) => DOMAIN response.body = tasks[2].body.lp
        /\ (Failed(1) /\ Failed(2) /\ Succeeded(3)) =>
              DOMAIN response.body = tasks[3].body.lp

\* C4 witness: daily failed, weekly and monthly succeeded with different
\* entities, and the output has the weekly ones.
C4_Witness ==
    /\ IsReturns /\ Gathered /\ response.kind = "return"
    /\ Failed(1) /\ Succeeded(2) /\ Succeeded(3)
    /\ tasks[2].body.lp # {}
    /\ tasks[2].body.lp # tasks[3].body.lp
    /\ DOMAIN response.body = tasks[2].body.lp

\* C5 (as claimed): when the daily, weekly and monthly calls all fail,
\* fee_returns completes with an output that holds no entity.
C5_AllFailedGivesEmptyOutput ==
    (IsReturns /\ Gathered /\ Len(tasks) = 3
        /\ Failed(1) /\ Failed(2) /\ Failed(3)) =>
        /\ response.kind = "return"
        /\ DOMAIN response.body = {}

\* X's entry as it would be had the weekly and monthly calls failed
EntryFromDailyAlone(hype) ==
    OutputEntry([daily |-> tasks[1], weekly |-> UpstreamError(2),
                 monthly |-> UpstreamError(3)], tasks[1].body, hype)

C7_Partition ==
    (IsWeekly /\ Dispatched) =>
        LET L     == end_timestamp - start_timestamp
            count == Len(requests)
        IN  /\ (L < week_in_seconds) => count = 0
            /\ (L >= week_in_seconds) =>
                  /\ count * week_in_seconds <= L
                  /\ L < (count + 1) * week_in_seconds
            /\ Len(tasks) = count
            /\ \A i \in 1..count :
                  /\ requests[i].weeknum = i
                  /\ requests[i].st = start_timestamp + (i - 1) * week_in_seconds
                  /\ requests[i].et = start_timestamp + i * week_in_seconds - 1
                  /\ requests[i].et < end_timestamp
                  /\ (i > 1) => requests[i].st = requests[i - 1].et + 1

\* C7 witness: two whole weeks and a partial third one lie between start and
\* end, and two sub-windows were dispatched.
C7_Witness ==
    /\ IsWeekly /\ Dispatched
    /\ end_timestamp - start_timestamp > 2 * week_in_seconds
    /\ Len(requests) = 2

Str_last_2 == <<"l", "a", "s", "t", "-", "2">>

\* the UTC day of an instant
DayOf(t) == CHOOSE d \in BaseDay..(BaseDay + MaxDay + 1) :
                d * seconds_in_day <= t /\ t < (d + 1) * seconds_in_day

\* C8: with D the UTC day of the instant the handler reads, "last" resolves to
\* midnight of D minus one week and "last-2" to midnight of D minus three
\* weeks, whatever the time of day.
C8_LastTokens ==
    (IsWeekly /\ query.kind = "str" /\ week_start_timestamp.kind = "int") =>
        /\ (query.s = Str_last) =>
              week_start_timestamp.n =
                  DayOf(now_read) * seconds_in_day - week_in_seconds
        /\ (query.s = Str_last_2) =>
              week_start_timestamp.n =
                  DayOf(now_read) * seconds_in_day - 3 * week_in_seconds

\* C8 witness: "last-2" was resolved one second before midnight.
C8_Witness ==
    /\ IsWeekly /\ query = StrParam(Str_last_2)
    /\ week_start_timestamp.kind = "int"
    /\ now_read % seconds_in_day = seconds_in_day - 1

\* "last", or "last-" followed by digits
WellFormedToken(s) ==
    \/ s = Str_last
    \/ /\ Len(s) > Len(Str_last) + 1
       /\ SubSeq(s, 1, Len(Str_last) + 1) = Append(Str_last, Str_dash)
       /\ \A i \in (Len(Str_last) + 2)..Len(s) : IsDigit(s[i])

\* C9 (as claimed): a string that is neither "last" nor "last-<digits>" is
\* answered with HTTP 400 and nothing is dispatched.
C9_BadTokenRejected ==
    (IsWeekly /\ pc # "resolve" /\ query.kind = "str" /\ ~WellFormedToken(query.s)) =>
        /\ response.kind = "http"
        /\ response.status = 400
        /\ requests = <<>>

\* C10 (as claimed): an explicit integer week_start_timestamp, 0 included, is
\* the start the partition works from.
C10_IntegerStartVerbatim ==
    (IsWeekly /\ query.kind = "int" /\ pc \in {"end", "gather", "done"}) =>
        start_timestamp = query.n

\* the endpoints that take a chain and a protocol
FeeEndpoints ==
    {"fee_returns", "gross_fees", "all_chain_usd_fees", "weekly_chain_usd_fees"}

\* C11 (as claimed): on returns, gross_fees, all_fees and weekly_fees a given
\* (protocol, chain) that is not in DEPLOYMENTS, in a request whose other
\* parameters are valid, is answered with HTTP 400 naming the protocol and the
\* chain, and no aggregation call is made.
C11_UndeployedPairRejected ==
    (/\ endpoint \in FeeEndpoints
     /\ ProtocolGiven(protocol)
     /\ <<protocol, chain>> \notin DEPLOYMENTS
     /\ IsWeekly => (query.kind = "int" \/ WellFormedToken(query.s))) =>
        /\ requests = <<>>
        /\ (pc = "done") =>
              /\ response.kind = "http"
              /\ response.status = 400
              /\ response.detail = NotAvailable(protocol, chain)

IsCorrelation == endpoint = "correlation" /\ pc = "done"
TokensGiven == token_addresses # <<>>
HypervisorsGiven == hypervisor_addresses # <<>>
Rejected400(detail) ==
    /\ response.kind = "http"
    /\ response.status = 400
    /\ response.detail = detail
OnlyCall(fn, addresses) ==
    /\ Len(requests) = 1
    /\ requests[1].fn = fn
    /\ requests[1].addresses = addresses
    /\ requests[1].chain = chain

TokenN(s) ==
    IF s = Str_last THEN 0
    ELSE DecimalValue(SubSeq(s, Len(Str_last) + 2, Len(s)))

\* C13: for "last-N" ("last": N = 0) the handler dispatches exactly N + 1
\* weekly calls, call i with week number i, each starting later than the one
\* before, and the last sub-window ends one second before midnight UTC of the
\* day of the instant the handler read, whatever the time of day.
C13_LastNDispatchesNPlusOne ==
    (IsWeekly /\ Dispatched /\ query.kind = "str" /\ WellFormedToken(query.s)) =>
        LET n == TokenN(query.s)
        IN  /\ Len(requests) = n + 1
            /\ Len(tasks) = n + 1
            /\ \A i \in 1..Len(requests) :
                  /\ requests[i].weeknum = i
                  /\ (i > 1) => requests[i].st > requests[i - 1].st
            /\ Len(requests) > 0 =>
                  requests[Len(requests)].et = DayOf(now_read) * seconds_in_day - 1

\* C13 witness: "last-2" arrived at noon and three weekly calls were dispatched.
C13_Witness ==
    /\ IsWeekly /\ Dispatched /\ query = StrParam(Str_last_2)
    /\ now_read % seconds_in_day = 43200
    /\ Len(requests) = 3
    /\ requests[3].weeknum = 3

====
